---- MODULE Spec2Model ----
(***************************************************************************)
(* Model of algonaut_transaction::account::Account: single signing,       *)
(* multisig signing and the merge of partially signed multisig            *)
(* transactions.  Every operation of Account is a pure function of its    *)
(* arguments; an action of the model draws the arguments of one call and  *)
(* records the call together with what it returned.                       *)
(***************************************************************************)
EXTENDS Integers, Sequences, FiniteSets, TLC

VARIABLES
    op,        \* the operation that was called last ("none" before any call)
    args,      \* the arguments of that call
    result,    \* what the call returned: Ok(value), Err(kind) or Panic
    signed     \* the byte strings handed to Account::sign during the call

vars == <<op, args, result, signed>>

----------------------------------------------------------------------------
(* Bounds of the model *)

\* longest list handed to merge_multisig_transactions
MaxInputs == 3
\* most subsig slots of a MultisigSignature, most members of a MultisigAddress
MaxSubsigs == 2
\* most members of the policy a group of signers collects signatures for
MaxMembers == 3

\* the seeds accounts are built from
Seeds == {1, 2}
\* transaction payloads (everything of a Transaction but its sender)
Payloads == {1, 2}
\* programs of a LogicSignature
Programs == {1, 2}
\* multisig versions and thresholds
Versions == {1}
Thresholds == {1, 2}

----------------------------------------------------------------------------
(* Option<T> and Result<T, AlgorandError> *)

None == <<>>
Some(x) == <<x>>

Ok(v) == [tag |-> "Ok", value |-> v, error |-> "none"]
Err(e) == [tag |-> "Err", value |-> None, error |-> e]
\* a panic (Option::unwrap on None): the call aborts and returns nothing
Panic == [tag |-> "Panic", value |-> None, error |-> "none"]

SeqsUpTo(S, n) == UNION {[1..k -> S] : k \in 0..n}

----------------------------------------------------------------------------
(* Keys, addresses, signatures *)

\* the Ed25519 public key derived from a seed
PublicKeyOf(seed) == <<"ed25519", seed>>

\* Address::new(pk) wraps the 32 bytes of the key
Address(bytes) == [bytes |-> bytes]

\* Ed25519PublicKey(address.0)
Ed25519PublicKey(address) == address.bytes

from_seed(seed) == [seed |-> seed, address |-> Address(PublicKeyOf(seed))]

Accounts == {from_seed(s) : s \in Seeds}
Keys == {PublicKeyOf(s) : s \in Seeds}

\* Account::sign: the deterministic Ed25519 signature of `bytes` under the
\* account's key pair
sign(self, bytes) == [signer |-> PublicKeyOf(self.seed), msg |-> bytes]

sign_program(self, bytes) == sign(self, <<"Program", bytes>>)

\* MultisigAddress::address(): digest of the version, threshold and keys
MultisigAddress_address(ma) ==
    Address(<<"sha512_256", <<"MultisigAddr", ma.version, ma.threshold, ma.public_keys>>>>)

\* Transaction::bytes_to_sign(): the "TX" tag before the canonical encoding
bytes_to_sign(transaction) == <<"TX", transaction>>

\* BASE32_NOPAD.encode(ChecksumAlg::digest(bytes))
transaction_id_of(bytes) == <<"base32", <<"sha512_256", bytes>>>>

----------------------------------------------------------------------------
(* Account::sign_transaction *)

\* the call's result and the byte strings it signed
sign_transaction_run(self, transaction) ==
    LET transaction_bytes == bytes_to_sign(transaction)
        signature == sign(self, transaction_bytes)
        id == transaction_id_of(bytes_to_sign(transaction))
    IN  [result |-> Ok([transaction |-> transaction,
                        sig |-> Some(signature),
                        logicsig |-> None,
                        multisig |-> None,
                        transaction_id |-> id]),
         signed |-> <<transaction_bytes>>]

sign_transaction(self, transaction) == sign_transaction_run(self, transaction).result

\* ma.public_keys.contains(&key)
contains(public_keys, key) == \E i \in 1..Len(public_keys) : public_keys[i] = key

----------------------------------------------------------------------------
(* Account::sign_logic_msig *)

\* sign_logic_msig with the test of line 122 lost: every slot is signed
sign_logic_msig_run_every_slot(self, lsig, ma) ==
    LET my_public_key == Ed25519PublicKey(self.address)
    IN  IF ~contains(ma.public_keys, my_public_key)
        THEN [result |-> Err("InvalidSecretKeyInMultisig"), signed |-> <<>>]
        ELSE LET sig == sign_program(self, lsig.logic)
                 subsigs == [i \in 1..Len(ma.public_keys) |->
                               [key |-> ma.public_keys[i], sig |-> Some(sig)]]
                 multisig == [version |-> ma.version,
                              threshold |-> ma.threshold,
                              subsigs |-> subsigs]
             IN  [result |-> Ok([lsig EXCEPT !.msig = Some(multisig)]),
                  signed |-> << <<"Program", lsig.logic>> >>]

\* sign_logic_msig keeping only the caller's slot: the slots of the other
\* members are dropped
sign_logic_msig_run_own_slot_only(self, lsig, ma) ==
    LET my_public_key == Ed25519PublicKey(self.address)
    IN  IF ~contains(ma.public_keys, my_public_key)
        THEN [result |-> Err("InvalidSecretKeyInMultisig"), signed |-> <<>>]
        ELSE LET sig == sign_program(self, lsig.logic)
                 multisig == [version |-> ma.version,
                              threshold |-> ma.threshold,
                              subsigs |-> <<[key |-> my_public_key, sig |-> Some(sig)]>>]
             IN  [result |-> Ok([lsig EXCEPT !.msig = Some(multisig)]),
                  signed |-> << <<"Program", lsig.logic>> >>]

sign_logic_msig_run(self, lsig, ma) ==
    LET my_public_key == Ed25519PublicKey(self.address)
    IN  IF ~contains(ma.public_keys, my_public_key)
        THEN [result |-> Err("InvalidSecretKeyInMultisig"), signed |-> <<>>]
        ELSE LET sig == sign_program(self, lsig.logic)
                 subsigs == [i \in 1..Len(ma.public_keys) |->
                               IF ma.public_keys[i] = my_public_key
                               THEN [key |-> ma.public_keys[i], sig |-> Some(sig)]
                               ELSE [key |-> ma.public_keys[i], sig |-> None]]
                 multisig == [version |-> ma.version,
                              threshold |-> ma.threshold,
                              subsigs |-> subsigs]
             IN  [result |-> Ok([lsig EXCEPT !.msig = Some(multisig)]),
                  signed |-> << <<"Program", lsig.logic>> >>]

sign_logic_msig(self, lsig, ma) == sign_logic_msig_run(self, lsig, ma).result

----------------------------------------------------------------------------
(* Account::sign_multisig_transaction *)

\* sign_multisig_transaction with the two checks of lines 186-192 swapped
sign_multisig_transaction_run_member_first(self, from, transaction) ==
    LET my_public_key == Ed25519PublicKey(self.address)
    IN  IF ~contains(from.public_keys, my_public_key)
        THEN [result |-> Err("InvalidSecretKeyInMultisig"), signed |-> <<>>]
        ELSE IF MultisigAddress_address(from) # transaction.sender
        THEN [result |-> Err("InvalidSenderInMultisig"), signed |-> <<>>]
        ELSE LET run == sign_transaction_run(self, transaction)
                 signed_transaction == run.result.value
                 subsigs == [i \in 1..Len(from.public_keys) |->
                               IF from.public_keys[i] = my_public_key
                               THEN [key |-> from.public_keys[i],
                                     sig |-> signed_transaction.sig]
                               ELSE [key |-> from.public_keys[i], sig |-> None]]
                 multisig == [version |-> from.version,
                              threshold |-> from.threshold,
                              subsigs |-> subsigs]
             IN  [result |-> Ok([multisig |-> Some(multisig),
                                 sig |-> None,
                                 logicsig |-> None,
                                 transaction |-> transaction,
                                 transaction_id |-> signed_transaction.transaction_id]),
                  signed |-> run.signed]

\* the result built with the single signature of line 193 left in `sig`
sign_multisig_transaction_run_keeps_sig(self, from, transaction) ==
    IF MultisigAddress_address(from) # transaction.sender
    THEN [result |-> Err("InvalidSenderInMultisig"), signed |-> <<>>]
    ELSE LET my_public_key == Ed25519PublicKey(self.address)
         IN  IF ~contains(from.public_keys, my_public_key)
             THEN [result |-> Err("InvalidSecretKeyInMultisig"), signed |-> <<>>]
             ELSE LET run == sign_transaction_run(self, transaction)
                      signed_transaction == run.result.value
                      subsigs == [i \in 1..Len(from.public_keys) |->
                                    IF from.public_keys[i] = my_public_key
                                    THEN [key |-> from.public_keys[i],
                                          sig |-> signed_transaction.sig]
                                    ELSE [key |-> from.public_keys[i], sig |-> None]]
                      multisig == [version |-> from.version,
                                   threshold |-> from.threshold,
                                   subsigs |-> subsigs]
                  IN  [result |-> Ok([multisig |-> Some(multisig),
                                      sig |-> signed_transaction.sig,
                                      logicsig |-> None,
                                      transaction |-> transaction,
                                      transaction_id |-> signed_transaction.transaction_id]),
                       signed |-> run.signed]

sign_multisig_transaction_run(self, from, transaction) ==
    IF MultisigAddress_address(from) # transaction.sender
    THEN [result |-> Err("InvalidSenderInMultisig"), signed |-> <<>>]
    ELSE LET my_public_key == Ed25519PublicKey(self.address)
         IN  IF ~contains(from.public_keys, my_public_key)
             THEN [result |-> Err("InvalidSecretKeyInMultisig"), signed |-> <<>>]
             ELSE LET run == sign_transaction_run(self, transaction)
                      signed_transaction == run.result.value
                      subsigs == [i \in 1..Len(from.public_keys) |->
                                    IF from.public_keys[i] = my_public_key
                                    THEN [key |-> from.public_keys[i],
                                          sig |-> signed_transaction.sig]
                                    ELSE [key |-> from.public_keys[i], sig |-> None]]
                      multisig == [version |-> from.version,
                                   threshold |-> from.threshold,
                                   subsigs |-> subsigs]
                  IN  [result |-> Ok([multisig |-> Some(multisig),
                                      sig |-> None,
                                      logicsig |-> None,
                                      transaction |-> transaction,
                                      transaction_id |-> signed_transaction.transaction_id]),
                       signed |-> run.signed]

sign_multisig_transaction(self, from, transaction) ==
    sign_multisig_transaction_run(self, from, transaction).result

----------------------------------------------------------------------------
(* Account::merge_multisig_transactions *)

\* the walk with the adoption of line 255 lost: an empty slot stays empty
RECURSIVE merge_subsigs_no_adopt(_, _, _)
merge_subsigs_no_adopt(merged_subsigs, subsigs, j) ==
    IF j > Len(merged_subsigs) \/ j > Len(subsigs)
    THEN Ok(merged_subsigs)
    ELSE IF subsigs[j].key # merged_subsigs[j].key
    THEN Err("InvalidPublicKeyInMultisig")
    ELSE IF merged_subsigs[j].sig = None
    THEN merge_subsigs_no_adopt(merged_subsigs, subsigs, j + 1)
    ELSE IF merged_subsigs[j].sig # subsigs[j].sig /\ subsigs[j].sig # None
    THEN Err("MismatchingSignatures")
    ELSE merge_subsigs_no_adopt(merged_subsigs, subsigs, j + 1)

\* the walk with the test of line 256 lost: the accumulator's signature wins
RECURSIVE merge_subsigs_first_wins(_, _, _)
merge_subsigs_first_wins(merged_subsigs, subsigs, j) ==
    IF j > Len(merged_subsigs) \/ j > Len(subsigs)
    THEN Ok(merged_subsigs)
    ELSE IF subsigs[j].key # merged_subsigs[j].key
    THEN Err("InvalidPublicKeyInMultisig")
    ELSE IF merged_subsigs[j].sig = None
    THEN merge_subsigs_first_wins(
             [merged_subsigs EXCEPT ![j].sig = subsigs[j].sig], subsigs, j + 1)
    ELSE merge_subsigs_first_wins(merged_subsigs, subsigs, j + 1)

\* the walk with line 256 testing only that both slots are populated
RECURSIVE merge_subsigs_strict(_, _, _)
merge_subsigs_strict(merged_subsigs, subsigs, j) ==
    IF j > Len(merged_subsigs) \/ j > Len(subsigs)
    THEN Ok(merged_subsigs)
    ELSE IF subsigs[j].key # merged_subsigs[j].key
    THEN Err("InvalidPublicKeyInMultisig")
    ELSE IF merged_subsigs[j].sig = None
    THEN merge_subsigs_strict(
             [merged_subsigs EXCEPT ![j].sig = subsigs[j].sig], subsigs, j + 1)
    ELSE IF subsigs[j].sig # None
    THEN Err("MismatchingSignatures")
    ELSE merge_subsigs_strict(merged_subsigs, subsigs, j + 1)

\* the walk with the key test of line 251 lost
RECURSIVE merge_subsigs_no_key_check(_, _, _)
merge_subsigs_no_key_check(merged_subsigs, subsigs, j) ==
    IF j > Len(merged_subsigs) \/ j > Len(subsigs)
    THEN Ok(merged_subsigs)
    ELSE IF merged_subsigs[j].sig = None
    THEN merge_subsigs_no_key_check(
             [merged_subsigs EXCEPT ![j].sig = subsigs[j].sig], subsigs, j + 1)
    ELSE IF merged_subsigs[j].sig # subsigs[j].sig /\ subsigs[j].sig # None
    THEN Err("MismatchingSignatures")
    ELSE merge_subsigs_no_key_check(merged_subsigs, subsigs, j + 1)

\* the walk over merged_msig.subsigs.iter_mut().zip(&msig.subsigs), from slot j
\* on: the accumulator's subsigs afterwards, or the error that ends the merge
RECURSIVE merge_subsigs(_, _, _)
merge_subsigs(merged_subsigs, subsigs, j) ==
    IF j > Len(merged_subsigs) \/ j > Len(subsigs)
    THEN Ok(merged_subsigs)
    ELSE IF subsigs[j].key # merged_subsigs[j].key
    THEN Err("InvalidPublicKeyInMultisig")
    ELSE IF merged_subsigs[j].sig = None
    THEN merge_subsigs([merged_subsigs EXCEPT ![j].sig = subsigs[j].sig], subsigs, j + 1)
    ELSE IF merged_subsigs[j].sig # subsigs[j].sig /\ subsigs[j].sig # None
    THEN Err("MismatchingSignatures")
    ELSE merge_subsigs(merged_subsigs, subsigs, j + 1)

\* the loop with the count test of line 246 lost: zip stops at the shorter
RECURSIVE merge_loop_no_count_check(_, _, _)
merge_loop_no_count_check(merged, transactions, i) ==
    IF i > Len(transactions)
    THEN Ok(merged)
    ELSE IF merged.multisig = None \/ transactions[i].multisig = None
    THEN Panic
    ELSE LET merged_msig == merged.multisig[1]
             msig == transactions[i].multisig[1]
             walk == merge_subsigs(merged_msig.subsigs, msig.subsigs, 1)
         IN  IF walk.tag = "Err"
             THEN walk
             ELSE merge_loop_no_count_check(
                      [merged EXCEPT !.multisig =
                          Some([merged_msig EXCEPT !.subsigs = walk.value])],
                      transactions, i + 1)

\* the loop over `transactions`, from input i on, with accumulator `merged`
\* (the assert_eq! of line 249 follows the test of line 246 and never fails)
RECURSIVE merge_loop(_, _, _)
merge_loop(merged, transactions, i) ==
    IF i > Len(transactions)
    THEN Ok(merged)
    ELSE IF merged.multisig = None \/ transactions[i].multisig = None
    THEN Panic
    ELSE LET merged_msig == merged.multisig[1]
             msig == transactions[i].multisig[1]
         IN  IF Len(merged_msig.subsigs) # Len(msig.subsigs)
             THEN Err("InvalidNumberOfSubsignatures")
             ELSE LET walk == merge_subsigs(merged_msig.subsigs, msig.subsigs, 1)
                  IN  IF walk.tag = "Err"
                      THEN walk
                      ELSE merge_loop(
                               [merged EXCEPT !.multisig =
                                   Some([merged_msig EXCEPT !.subsigs = walk.value])],
                               transactions, i + 1)

\* the merge returning its last input in place of the merged transaction
merge_multisig_transactions_returns_last(transactions) ==
    IF Len(transactions) < 2
    THEN Err("InsufficientTransactions")
    ELSE LET walked == merge_loop(transactions[1], transactions, 1)
         IN  IF walked.tag = "Ok"
             THEN Ok(transactions[Len(transactions)])
             ELSE walked

\* the merge with the test of line 239 off by one
merge_multisig_transactions_one_input(transactions) ==
    IF Len(transactions) < 1
    THEN Err("InsufficientTransactions")
    ELSE merge_loop(transactions[1], transactions, 1)

merge_multisig_transactions(transactions) ==
    IF Len(transactions) < 2
    THEN Err("InsufficientTransactions")
    ELSE merge_loop(transactions[1], transactions, 1)

----------------------------------------------------------------------------
(* Account::append_to_logic_msig *)

\* append_to_logic_msig rebuilding the subsigs from the keys alone: the
\* signatures of the other slots are lost
append_to_logic_msig_run_drops_others(self, lsig) ==
    LET my_public_key == Ed25519PublicKey(self.address)
    IN  IF lsig.msig = None
        THEN [result |-> Err("InvalidSecretKeyInMultisig"), signed |-> <<>>]
        ELSE LET msig == lsig.msig[1]
                 sig == sign_program(self, lsig.logic)
                 subsigs == [i \in 1..Len(msig.subsigs) |->
                               IF msig.subsigs[i].key = my_public_key
                               THEN [key |-> msig.subsigs[i].key, sig |-> Some(sig)]
                               ELSE [key |-> msig.subsigs[i].key, sig |-> None]]
                 found_my_public_key ==
                     \E i \in 1..Len(msig.subsigs) : msig.subsigs[i].key = my_public_key
             IN  [result |-> IF ~found_my_public_key
                             THEN Err("InvalidSecretKeyInMultisig")
                             ELSE Ok([lsig EXCEPT !.msig =
                                         Some([msig EXCEPT !.subsigs = subsigs])]),
                  signed |-> << <<"Program", lsig.logic>> >>]

\* append_to_logic_msig with the test of line 173 lost
append_to_logic_msig_run_no_member_check(self, lsig) ==
    LET my_public_key == Ed25519PublicKey(self.address)
    IN  IF lsig.msig = None
        THEN [result |-> Err("InvalidSecretKeyInMultisig"), signed |-> <<>>]
        ELSE LET msig == lsig.msig[1]
                 sig == sign_program(self, lsig.logic)
                 subsigs == [i \in 1..Len(msig.subsigs) |->
                               IF msig.subsigs[i].key = my_public_key
                               THEN [key |-> msig.subsigs[i].key, sig |-> Some(sig)]
                               ELSE [key |-> msig.subsigs[i].key,
                                     sig |-> msig.subsigs[i].sig]]
             IN  [result |-> Ok([lsig EXCEPT !.msig =
                                    Some([msig EXCEPT !.subsigs = subsigs])]),
                  signed |-> << <<"Program", lsig.logic>> >>]

\* the program is signed (line 154) before the caller's key is looked for
append_to_logic_msig_run(self, lsig) ==
    LET my_public_key == Ed25519PublicKey(self.address)
    IN  IF lsig.msig = None
        THEN [result |-> Err("InvalidSecretKeyInMultisig"), signed |-> <<>>]
        ELSE LET msig == lsig.msig[1]
                 sig == sign_program(self, lsig.logic)
                 subsigs == [i \in 1..Len(msig.subsigs) |->
                               IF msig.subsigs[i].key = my_public_key
                               THEN [key |-> msig.subsigs[i].key, sig |-> Some(sig)]
                               ELSE [key |-> msig.subsigs[i].key,
                                     sig |-> msig.subsigs[i].sig]]
                 found_my_public_key ==
                     \E i \in 1..Len(msig.subsigs) : msig.subsigs[i].key = my_public_key
             IN  [result |-> IF ~found_my_public_key
                             THEN Err("InvalidSecretKeyInMultisig")
                             ELSE Ok([lsig EXCEPT !.msig =
                                         Some([msig EXCEPT !.subsigs = subsigs])]),
                  signed |-> << <<"Program", lsig.logic>> >>]

append_to_logic_msig(self, lsig) == append_to_logic_msig_run(self, lsig).result

----------------------------------------------------------------------------
(* Account::append_multisig_transaction *)

\* append_multisig_transaction merging in the other order: the existing
\* transaction is the accumulator
append_multisig_transaction_run_existing_first(self, from, transaction) ==
    LET run == sign_multisig_transaction_run(self, from, transaction.transaction)
    IN  IF run.result.tag # "Ok"
        THEN run
        ELSE [result |-> merge_multisig_transactions(<<transaction, run.result.value>>),
              signed |-> run.signed]

append_multisig_transaction_run(self, from, transaction) ==
    LET run == sign_multisig_transaction_run(self, from, transaction.transaction)
    IN  IF run.result.tag # "Ok"
        THEN run
        ELSE [result |-> merge_multisig_transactions(<<run.result.value, transaction>>),
              signed |-> run.signed]

append_multisig_transaction(self, from, transaction) ==
    append_multisig_transaction_run(self, from, transaction).result

----------------------------------------------------------------------------
(* The arguments the calls are made with *)

\* MultisigAddress values: any member list, a key may be listed twice
Policies ==
    [version : Versions, threshold : Thresholds, public_keys : SeqsUpTo(Keys, MaxSubsigs)]

AccountAddresses == {a.address : a \in Accounts}
Senders == AccountAddresses \cup {MultisigAddress_address(ma) : ma \in Policies}
Transactions == [sender : Senders, payload : Payloads]

\* the transactions of the merge's inputs: one sender, any payload
MergeTransaction(payload) == [sender |-> from_seed(1).address, payload |-> payload]

\* the subsig sequences over a member list: every slot is empty or holds the
\* signature of its key over one of the transactions
SubsigsOver(ks) ==
    {[i \in 1..Len(ks) |->
         [key |-> ks[i],
          sig |-> IF c[i] = 0
                  THEN None
                  ELSE Some([signer |-> ks[i],
                             msg |-> bytes_to_sign(MergeTransaction(c[i]))])]] :
        c \in [1..Len(ks) -> {0} \cup Payloads]}

\* what distinguishes two inputs besides their subsigs
AllHeaders == [payload : Payloads, threshold : Thresholds]
\* two signing sessions: payload h is signed under threshold h
SessionHeaders == {h \in AllHeaders : h.payload = h.threshold}

\* the SignedTransaction values handed to the merge: partially signed multisig
\* transactions over any member list, and transactions that carry no multisig
MergeInputsOver(headers) ==
    {[transaction |-> MergeTransaction(h.payload),
      sig |-> None,
      logicsig |-> None,
      multisig |-> Some([version |-> v, threshold |-> h.threshold, subsigs |-> ss]),
      transaction_id |-> transaction_id_of(bytes_to_sign(MergeTransaction(h.payload)))] :
        h \in headers, v \in Versions,
        ss \in UNION {SubsigsOver(ks) : ks \in SeqsUpTo(Keys, MaxSubsigs)}}
    \cup
    {sign_transaction(from_seed(1), MergeTransaction(h.payload)).value : h \in headers}

\* LogicSignature values: unsigned, single-signed, or carrying a multisig
LogicSignatures ==
    [logic : Programs,
     args : {<<>>},
     sig : {None} \cup {Some(sign_program(a, 1)) : a \in {from_seed(1)}},
     msig : {None} \cup {Some([version |-> 1, threshold |-> 1,
                               subsigs |-> <<[key |-> PublicKeyOf(1), sig |-> None]>>])}]

----------------------------------------------------------------------------
(* The state machine: a call with its arguments is pending, then returns *)

\* no return value yet
Pending == [tag |-> "Pending", value |-> None, error |-> "none"]

InitSignTransaction ==
    /\ op = "sign_transaction"
    /\ \E self \in Accounts, transaction \in Transactions :
           args = [self |-> self, transaction |-> transaction]

InitSignLogicMsig ==
    /\ op = "sign_logic_msig"
    /\ \E self \in Accounts, lsig \in LogicSignatures, ma \in Policies :
           args = [self |-> self, lsig |-> lsig, ma |-> ma]

InitSignMultisigTransaction ==
    /\ op = "sign_multisig_transaction"
    /\ \E self \in Accounts, from \in Policies, transaction \in Transactions :
           args = [self |-> self, from |-> from, transaction |-> transaction]

\* a list of up to MaxInputs inputs out of the two sessions
InitMergeMultisigTransactions ==
    /\ op = "merge_multisig_transactions"
    /\ \E n \in 0..MaxInputs : \E transactions \in [1..n -> MergeInputsOver(SessionHeaders)] :
           args = [transactions |-> transactions]

\* two inputs with any transaction and threshold
InitMergePairOfTransactions ==
    /\ op = "merge_multisig_transactions"
    /\ \E transactions \in [1..2 -> MergeInputsOver(AllHeaders)] :
           args = [transactions |-> transactions]

\* the signing operations
Init ==
    /\ \/ InitSignTransaction
       \/ InitSignLogicMsig
       \/ InitSignMultisigTransaction
    /\ result = Pending
    /\ signed = <<>>

\* the merge of a list
InitMerge ==
    /\ InitMergeMultisigTransactions
    /\ result = Pending
    /\ signed = <<>>

\* the merge of a pair
InitMergePair ==
    /\ InitMergePairOfTransactions
    /\ result = Pending
    /\ signed = <<>>

SignTransaction ==
    /\ op = "sign_transaction"
    /\ result = Pending
    /\ LET run == sign_transaction_run(args.self, args.transaction)
       IN  /\ result' = run.result
           /\ signed' = run.signed
    /\ UNCHANGED <<op, args>>

SignLogicMsig ==
    /\ op = "sign_logic_msig"
    /\ result = Pending
    /\ LET run == sign_logic_msig_run(args.self, args.lsig, args.ma)
       IN  /\ result' = run.result
           /\ signed' = run.signed
    /\ UNCHANGED <<op, args>>

SignMultisigTransaction ==
    /\ op = "sign_multisig_transaction"
    /\ result = Pending
    /\ LET run == sign_multisig_transaction_run(args.self, args.from, args.transaction)
       IN  /\ result' = run.result
           /\ signed' = run.signed
    /\ UNCHANGED <<op, args>>

MergeMultisigTransactions ==
    /\ op = "merge_multisig_transactions"
    /\ result = Pending
    /\ result' = merge_multisig_transactions(args.transactions)
    /\ UNCHANGED <<op, args, signed>>

Next ==
    \/ SignTransaction
    \/ SignLogicMsig
    \/ SignMultisigTransaction

NextMerge == MergeMultisigTransactions

Spec == Init /\ [][Next]_vars

SpecMerge == InitMerge /\ [][NextMerge]_vars

SpecMergePair == InitMergePair /\ [][NextMerge]_vars

----------------------------------------------------------------------------
(* Vocabulary of the properties *)

MergeReturned == op = "merge_multisig_transactions" /\ result # Pending

HasMultisig(t) == t.multisig # None
Subsigs(t) == t.multisig[1].subsigs
SlotKeys(t) == [i \in 1..Len(Subsigs(t)) |-> Subsigs(t)[i].key]
Populated(t) == {i \in 1..Len(Subsigs(t)) : Subsigs(t)[i].sig # None}

\* two inputs hold two different non-empty signatures for slot i
Conflict(a, b, i) ==
    /\ i <= Len(Subsigs(a)) /\ i <= Len(Subsigs(b))
    /\ Subsigs(a)[i].sig # None
    /\ Subsigs(b)[i].sig # None
    /\ Subsigs(a)[i].sig # Subsigs(b)[i].sig

\* every pairwise slot agrees or is empty on one side, over the same slot keys
Compatible(a, b) ==
    /\ HasMultisig(a) /\ HasMultisig(b)
    /\ SlotKeys(a) = SlotKeys(b)
    /\ \A i \in 1..Len(Subsigs(a)) : ~Conflict(a, b, i)

----------------------------------------------------------------------------
(* C8: merge_multisig_transactions on fewer than 2 inputs fails with
   InsufficientTransactions whatever the inputs hold, also for an input
   without multisig, on which every later step of the merge would abort. *)
C8_InsufficientTransactions ==
    (MergeReturned /\ Len(args.transactions) < 2)
        => result = Err("InsufficientTransactions")

\* a single input that carries no multisig has been handed to the merge
C8_Witness ==
    /\ MergeReturned
    /\ Len(args.transactions) = 1
    /\ ~HasMultisig(args.transactions[1])

(* C1: a successful merge of 2 or more inputs returns the first input with
   the union of the inputs' populated slots: slot i of the result is
   populated iff it is populated in some input, every input that populates
   it holds the result's signature, and the transaction, transaction id,
   sig, logicsig, version, threshold and slot keys are the first input's. *)
C1_MergeIsUnionOverFirst ==
    (MergeReturned /\ Len(args.transactions) >= 2 /\ result.tag = "Ok")
        => LET ts == args.transactions
               first == ts[1]
               r == result.value
           IN  /\ r.transaction = first.transaction
               /\ r.transaction_id = first.transaction_id
               /\ r.sig = first.sig
               /\ r.logicsig = first.logicsig
               /\ HasMultisig(r)
               /\ \A k \in 1..Len(ts) : HasMultisig(ts[k])
               /\ r.multisig[1].version = first.multisig[1].version
               /\ r.multisig[1].threshold = first.multisig[1].threshold
               /\ SlotKeys(r) = SlotKeys(first)
               /\ \A k \in 1..Len(ts) : Len(Subsigs(ts[k])) = Len(Subsigs(r))
               /\ \A i \in 1..Len(Subsigs(r)) :
                      /\ (i \in Populated(r)) <=> (\E k \in 1..Len(ts) : i \in Populated(ts[k]))
                      /\ \A k \in 1..Len(ts) :
                             i \in Populated(ts[k]) => Subsigs(r)[i].sig = Subsigs(ts[k])[i].sig

\* a merge of three inputs succeeded; a slot the first input leaves empty was
\* filled from a later one, whose transaction and threshold are not the first's
C1_Witness ==
    /\ MergeReturned
    /\ result.tag = "Ok"
    /\ Len(args.transactions) = 3
    /\ \E i \in Populated(result.value) :
           /\ i \notin Populated(args.transactions[1])
           /\ i \in Populated(args.transactions[3])
    /\ args.transactions[3].transaction # args.transactions[1].transaction
    /\ args.transactions[3].multisig[1].threshold # args.transactions[1].multisig[1].threshold

(* C2: over inputs with equal subsig counts and equal slot keys, the merge
   fails with MismatchingSignatures whenever two inputs, at any two
   positions, hold different non-empty signatures for one slot. *)
C2_ConflictIsRejected ==
    (/\ MergeReturned
     /\ Len(args.transactions) >= 2
     /\ \A k \in 1..Len(args.transactions) :
            /\ HasMultisig(args.transactions[k])
            /\ HasMultisig(args.transactions[1])
            /\ SlotKeys(args.transactions[k]) = SlotKeys(args.transactions[1])
     /\ \E j, k \in 1..Len(args.transactions) :
            \E i \in 1..Len(Subsigs(args.transactions[j])) :
                Conflict(args.transactions[j], args.transactions[k], i))
        => result = Err("MismatchingSignatures")

\* the conflicting pair is the second and third input, the first input leaves
\* the slot empty
C2_Witness ==
    /\ MergeReturned
    /\ Len(args.transactions) = 3
    /\ \A k \in 1..3 :
           /\ HasMultisig(args.transactions[k])
           /\ HasMultisig(args.transactions[1])
           /\ SlotKeys(args.transactions[k]) = SlotKeys(args.transactions[1])
    /\ \E i \in 1..Len(Subsigs(args.transactions[1])) :
           /\ i \notin Populated(args.transactions[1])
           /\ Conflict(args.transactions[2], args.transactions[3], i)

(* C3: the merge commutes: for two inputs over the same slot keys whose
   pairwise slots agree or are empty on one side, merge([A,B]) and
   merge([B,A]) both succeed and return equal values. *)
C3_MergeCommutes ==
    (/\ MergeReturned
     /\ Len(args.transactions) = 2
     /\ Compatible(args.transactions[1], args.transactions[2]))
        => /\ result.tag = "Ok"
           /\ merge_multisig_transactions(
                  <<args.transactions[2], args.transactions[1]>>) = result

(* C4: the merge is idempotent: for two compatible inputs A and B,
   merge([merge([A,B]), A]) equals merge([A,B]), and merge([A,A]) returns A. *)
C4_MergeIdempotent ==
    (/\ MergeReturned
     /\ Len(args.transactions) = 2
     /\ Compatible(args.transactions[1], args.transactions[2]))
        => /\ result.tag = "Ok"
           /\ merge_multisig_transactions(<<result.value, args.transactions[1]>>) = result
           /\ merge_multisig_transactions(
                  <<args.transactions[1], args.transactions[1]>>) = Ok(args.transactions[1])

\* A holds a signature, B fills a slot that A leaves empty, and B is a
\* different transaction under a different threshold
C4_Witness ==
    /\ MergeReturned
    /\ Len(args.transactions) = 2
    /\ Compatible(args.transactions[1], args.transactions[2])
    /\ Populated(args.transactions[1]) # {}
    /\ Populated(args.transactions[2]) \ Populated(args.transactions[1]) # {}
    /\ args.transactions[1].transaction # args.transactions[2].transaction
    /\ args.transactions[1].multisig[1].threshold # args.transactions[2].multisig[1].threshold

(* C5: the merge of 2 or more SignedTransaction values never aborts: it
   returns a merged transaction or an error kind, also when an input carries
   no multisig. *)
C5_MergeNeverAborts ==
    (MergeReturned /\ Len(args.transactions) >= 2) => result.tag \in {"Ok", "Err"}

----------------------------------------------------------------------------
(* The walk of the merge over its inputs, told from the inputs alone *)

\* input k is reached: every input up to k carries a multisig, and the inputs
\* before k have the first input's count and keys and no conflicting signatures
ReachesInput(ts, k) ==
    /\ \A m \in 1..k : HasMultisig(ts[m])
    /\ \A m \in 1..(k - 1) :
           /\ SlotKeys(ts[m]) = SlotKeys(ts[1])
           /\ \A n \in 1..(m - 1) : \A s \in 1..Len(Subsigs(ts[m])) :
                  ~Conflict(ts[n], ts[m], s)

\* slot i of input k is reached: input k has the first input's count, and its
\* slots before i have the first input's keys and no conflicting signature
ReachesSlot(ts, k, i) ==
    /\ ReachesInput(ts, k)
    /\ Len(Subsigs(ts[k])) = Len(Subsigs(ts[1]))
    /\ i \in 1..Len(Subsigs(ts[k]))
    /\ \A s \in 1..(i - 1) :
           /\ Subsigs(ts[k])[s].key = Subsigs(ts[1])[s].key
           /\ \A n \in 1..(k - 1) : ~Conflict(ts[n], ts[k], s)

\* input k differs from the first input in the key of slot i
KeyDiffers(ts, k, i) ==
    /\ i <= Len(Subsigs(ts[k]))
    /\ i <= Len(Subsigs(ts[1]))
    /\ Subsigs(ts[k])[i].key # Subsigs(ts[1])[i].key

(* C6, as stated: the merge succeeds only if every input's slot keys are the
   first input's, and whenever an input's key at some slot differs from the
   accumulator's key at that slot the merge fails with
   InvalidPublicKeyInMultisig. *)
C6_AsStated ==
    (/\ MergeReturned
     /\ Len(args.transactions) >= 2
     /\ \A k \in 1..Len(args.transactions) : HasMultisig(args.transactions[k]))
        => LET ts == args.transactions
           IN  /\ result.tag = "Ok" => \A k \in 1..Len(ts) : SlotKeys(ts[k]) = SlotKeys(ts[1])
               /\ (\E k \in 1..Len(ts) : \E i \in 1..MaxSubsigs : KeyDiffers(ts, k, i))
                      => result = Err("InvalidPublicKeyInMultisig")

(* C6, amended: the merge succeeds only if every input's slot keys are the
   first input's; when an input's key at some slot differs from the
   accumulator's the merge does not succeed, and it fails with
   InvalidPublicKeyInMultisig when the walk reaches that slot, that is unless
   an earlier input or an earlier slot already ended the merge. *)
C6_KeyMismatchRejected ==
    (MergeReturned /\ Len(args.transactions) >= 2)
        => LET ts == args.transactions
           IN  /\ result.tag = "Ok" =>
                      /\ \A k \in 1..Len(ts) : HasMultisig(ts[k])
                      /\ \A k \in 1..Len(ts) : SlotKeys(ts[k]) = SlotKeys(ts[1])
               /\ \A k \in 1..Len(ts) : \A i \in 1..MaxSubsigs :
                      (ReachesSlot(ts, k, i) /\ KeyDiffers(ts, k, i))
                          => result = Err("InvalidPublicKeyInMultisig")

\* the third input differs from the first in the key of its second slot, and
\* the walk reaches that slot
C6_Witness ==
    /\ MergeReturned
    /\ Len(args.transactions) = 3
    /\ ReachesSlot(args.transactions, 3, 2)
    /\ KeyDiffers(args.transactions, 3, 2)

(* C7, as stated: the merge of 2 or more inputs fails with
   InvalidNumberOfSubsignatures whenever the inputs have differing subsig
   counts. *)
C7_AsStated ==
    (/\ MergeReturned
     /\ Len(args.transactions) >= 2
     /\ \A k \in 1..Len(args.transactions) : HasMultisig(args.transactions[k])
     /\ \E k \in 1..Len(args.transactions) :
            Len(Subsigs(args.transactions[k])) # Len(Subsigs(args.transactions[1])))
        => result = Err("InvalidNumberOfSubsignatures")

(* C7, amended: the merge never succeeds on inputs with differing subsig
   counts; an input whose count differs from the accumulator's is rejected
   with InvalidNumberOfSubsignatures when the walk reaches it, whatever its
   slots hold, that is unless an earlier input already ended the merge; with
   exactly 2 inputs the error is always InvalidNumberOfSubsignatures. *)
C7_CountMismatchRejected ==
    (MergeReturned /\ Len(args.transactions) >= 2)
        => LET ts == args.transactions
           IN  /\ result.tag = "Ok" =>
                      /\ \A k \in 1..Len(ts) : HasMultisig(ts[k])
                      /\ \A k \in 1..Len(ts) : Len(Subsigs(ts[k])) = Len(Subsigs(ts[1]))
               /\ \A k \in 1..Len(ts) :
                      (ReachesInput(ts, k) /\ Len(Subsigs(ts[k])) # Len(Subsigs(ts[1])))
                          => result = Err("InvalidNumberOfSubsignatures")
               /\ (/\ Len(ts) = 2
                   /\ HasMultisig(ts[1]) /\ HasMultisig(ts[2])
                   /\ Len(Subsigs(ts[2])) # Len(Subsigs(ts[1])))
                      => result = Err("InvalidNumberOfSubsignatures")

\* the third input has another count than the first, and its first slot holds
\* a key and a signature the first input does not
C7_Witness ==
    /\ MergeReturned
    /\ Len(args.transactions) = 3
    /\ ReachesInput(args.transactions, 3)
    /\ Len(Subsigs(args.transactions[3])) > Len(Subsigs(args.transactions[1]))
    /\ Len(Subsigs(args.transactions[1])) >= 1
    /\ KeyDiffers(args.transactions, 3, 1)
    /\ 1 \in Populated(args.transactions[3])
    /\ 1 \in Populated(args.transactions[1])

----------------------------------------------------------------------------
SignMultisigReturned == op = "sign_multisig_transaction" /\ result # Pending
SignLogicMsigReturned == op = "sign_logic_msig" /\ result # Pending

\* the slots of a member list that hold the key
SlotsOf(public_keys, key) == {i \in 1..Len(public_keys) : public_keys[i] = key}

(* C9: sign_multisig_transaction checks the sender before membership and
   before signing: if the policy's address is not the transaction's sender it
   fails with InvalidSenderInMultisig, member or not, and nothing has been
   signed; if the address matches and the caller is no member it fails with
   InvalidSecretKeyInMultisig. *)
C9_SenderCheckedFirst ==
    SignMultisigReturned
        => /\ MultisigAddress_address(args.from) # args.transaction.sender
                  => /\ result = Err("InvalidSenderInMultisig")
                     /\ signed = <<>>
           /\ (/\ MultisigAddress_address(args.from) = args.transaction.sender
               /\ SlotsOf(args.from.public_keys, PublicKeyOf(args.self.seed)) = {})
                  => result = Err("InvalidSecretKeyInMultisig")

\* the call returned for a sender that is not the policy's address and a
\* caller that is no member of the policy
C9_Witness ==
    /\ SignMultisigReturned
    /\ MultisigAddress_address(args.from) # args.transaction.sender
    /\ SlotsOf(args.from.public_keys, PublicKeyOf(args.self.seed)) = {}
    /\ Len(args.from.public_keys) >= 1

\* what sign_logic_msig returns for a member, but for the number of populated
\* slots: the input with the multisig replaced, the policy's keys in the
\* policy's order, the caller's slots signed over the program, version and
\* threshold copied
SignLogicMsigShape ==
    LET my_key == PublicKeyOf(args.self.seed)
        program_sig == [signer |-> my_key, msg |-> <<"Program", args.lsig.logic>>]
    IN  /\ result.tag = "Ok"
        /\ result.value.logic = args.lsig.logic
        /\ result.value.args = args.lsig.args
        /\ result.value.sig = args.lsig.sig
        /\ result.value.msig # None
        /\ LET msig == result.value.msig[1]
           IN  /\ msig.version = args.ma.version
               /\ msig.threshold = args.ma.threshold
               /\ Len(msig.subsigs) = Len(args.ma.public_keys)
               /\ \A i \in 1..Len(msig.subsigs) :
                      /\ msig.subsigs[i].key = args.ma.public_keys[i]
                      /\ msig.subsigs[i].sig # None => msig.subsigs[i].sig = Some(program_sig)
                      /\ msig.subsigs[i].sig # None => msig.subsigs[i].key = my_key

\* the populated slots of the MultisigSignature that sign_logic_msig returned
SignedSlots == {i \in 1..Len(result.value.msig[1].subsigs) :
                   result.value.msig[1].subsigs[i].sig # None}

(* C10, as stated: for every policy that contains the caller's key
   sign_logic_msig returns a MultisigSignature with exactly one populated
   subsig, the caller's, holding the caller's program signature, all others
   empty, the keys in the policy's order, version and threshold copied; for
   a policy without the caller's key it fails with
   InvalidSecretKeyInMultisig. *)
C10_AsStated ==
    SignLogicMsigReturned
        => IF SlotsOf(args.ma.public_keys, PublicKeyOf(args.self.seed)) # {}
           THEN SignLogicMsigShape /\ Cardinality(SignedSlots) = 1
           ELSE result = Err("InvalidSecretKeyInMultisig")

(* C10, amended: for every policy that contains the caller's key
   sign_logic_msig returns a MultisigSignature in which exactly the slots
   whose key is the caller's are populated, each with the caller's program
   signature over lsig.logic (one slot when the policy lists the key once,
   one per listing otherwise), all others empty, the keys in the policy's
   order, version and threshold copied; for a policy without the caller's key
   it fails with InvalidSecretKeyInMultisig. *)
C10_SignLogicMsig ==
    SignLogicMsigReturned
        => IF SlotsOf(args.ma.public_keys, PublicKeyOf(args.self.seed)) # {}
           THEN /\ SignLogicMsigShape
                /\ SignedSlots = SlotsOf(args.ma.public_keys, PublicKeyOf(args.self.seed))
                /\ Cardinality(SlotsOf(args.ma.public_keys, PublicKeyOf(args.self.seed))) = 1
                       => Cardinality(SignedSlots) = 1
           ELSE result = Err("InvalidSecretKeyInMultisig")

\* a member signed under a policy of two different keys, and the input carried
\* a single signature and an earlier multisig
C10_Witness ==
    /\ SignLogicMsigReturned
    /\ result.tag = "Ok"
    /\ Len(args.ma.public_keys) = 2
    /\ Cardinality(SlotsOf(args.ma.public_keys, PublicKeyOf(args.self.seed))) = 1
    /\ args.lsig.sig # None
    /\ args.lsig.msig # None

----------------------------------------------------------------------------
(* The append operations, each called once *)

\* the subsig sequences over a member list: every slot is empty or holds the
\* signature of its key over one of the byte strings msgs
SubsigsSigned(ks, msgs) ==
    {[i \in 1..Len(ks) |->
         [key |-> ks[i],
          sig |-> IF c[i] = None
                  THEN None
                  ELSE Some([signer |-> ks[i], msg |-> c[i][1]])]] :
        c \in [1..Len(ks) -> {None} \cup {Some(m) : m \in msgs}]}

ProgramBytes(logic) == <<"Program", logic>>

\* LogicSignature values handed to append_to_logic_msig: without multisig, or
\* with one over any member list whose slots are empty or signed over a program
AppendLogicSignatures ==
    [logic : Programs,
     args : {<<>>},
     sig : {None, Some(sign_program(from_seed(1), 1))},
     msig : {None} \cup
            {Some(m) : m \in UNION {[version : Versions, threshold : Thresholds,
                                     subsigs : SubsigsSigned(ks, {ProgramBytes(l) : l \in Programs})] :
                                       ks \in SeqsUpTo(Keys, MaxSubsigs)}}]

\* SignedTransaction values handed to append_multisig_transaction: a multisig
\* over any member list whose slots are empty or signed over the transaction
\* or over the same transaction with another payload, or a single signature
ExistingTransactions(t) ==
    {[transaction |-> t,
      sig |-> None,
      logicsig |-> None,
      multisig |-> Some(m),
      transaction_id |-> transaction_id_of(bytes_to_sign(t))] :
        m \in UNION {[version : Versions, threshold : Thresholds,
                      subsigs : SubsigsSigned(ks,
                                    {bytes_to_sign([t EXCEPT !.payload = c]) :
                                        c \in Payloads})] :
                        ks \in SeqsUpTo(Keys, MaxSubsigs)}}
    \cup {sign_transaction(from_seed(1), t).value}

InitAppendToLogicMsig ==
    /\ op = "append_to_logic_msig"
    /\ \E self \in Accounts, lsig \in AppendLogicSignatures :
           args = [self |-> self, lsig |-> lsig]

InitAppendMultisigTransaction ==
    /\ op = "append_multisig_transaction"
    /\ \E self \in Accounts, from \in Policies, t \in Transactions :
           \E transaction \in ExistingTransactions(t) :
               args = [self |-> self, from |-> from, transaction |-> transaction]

InitAppend ==
    /\ \/ InitAppendToLogicMsig
       \/ InitAppendMultisigTransaction
       \/ InitSignLogicMsig
    /\ result = Pending
    /\ signed = <<>>

AppendToLogicMsig ==
    /\ op = "append_to_logic_msig"
    /\ result = Pending
    /\ LET run == append_to_logic_msig_run(args.self, args.lsig)
       IN  /\ result' = run.result
           /\ signed' = run.signed
    /\ UNCHANGED <<op, args>>

AppendMultisigTransaction ==
    /\ op = "append_multisig_transaction"
    /\ result = Pending
    /\ LET run == append_multisig_transaction_run(args.self, args.from, args.transaction)
       IN  /\ result' = run.result
           /\ signed' = run.signed
    /\ UNCHANGED <<op, args>>

NextAppend ==
    \/ AppendToLogicMsig
    \/ AppendMultisigTransaction
    \/ SignLogicMsig

SpecAppend == InitAppend /\ [][NextAppend]_vars

----------------------------------------------------------------------------
AppendToLogicMsigReturned == op = "append_to_logic_msig" /\ result # Pending
AppendMultisigReturned == op = "append_multisig_transaction" /\ result # Pending

(* C11: a successful append_to_logic_msig changes only the caller's own slot:
   the slot of the caller's key holds the caller's program signature
   afterwards, whatever it held before, and every other slot's key and
   signature, the slot order and count, the version, the threshold and the
   program bytes are those of the input. *)
C11_AppendChangesOwnSlotOnly ==
    (AppendToLogicMsigReturned /\ result.tag = "Ok")
        => LET my_key == PublicKeyOf(args.self.seed)
               before == args.lsig.msig[1]
               after == result.value.msig[1]
           IN  /\ args.lsig.msig # None
               /\ result.value.msig # None
               /\ result.value.logic = args.lsig.logic
               /\ result.value.args = args.lsig.args
               /\ result.value.sig = args.lsig.sig
               /\ after.version = before.version
               /\ after.threshold = before.threshold
               /\ Len(after.subsigs) = Len(before.subsigs)
               /\ \A i \in 1..Len(before.subsigs) :
                      /\ after.subsigs[i].key = before.subsigs[i].key
                      /\ IF before.subsigs[i].key = my_key
                         THEN after.subsigs[i].sig =
                                  Some([signer |-> my_key,
                                        msg |-> <<"Program", args.lsig.logic>>])
                         ELSE after.subsigs[i].sig = before.subsigs[i].sig

\* the caller's slot held a signature over another program and was
\* overwritten, next to a populated slot of another member
C11_Witness ==
    /\ AppendToLogicMsigReturned
    /\ result.tag = "Ok"
    /\ \E i, j \in 1..Len(args.lsig.msig[1].subsigs) :
           /\ args.lsig.msig[1].subsigs[i].key = PublicKeyOf(args.self.seed)
           /\ args.lsig.msig[1].subsigs[i].sig # None
           /\ args.lsig.msig[1].subsigs[i].sig # result.value.msig[1].subsigs[i].sig
           /\ args.lsig.msig[1].subsigs[j].key # PublicKeyOf(args.self.seed)
           /\ args.lsig.msig[1].subsigs[j].sig # None

(* C12: append_to_logic_msig fails with InvalidSecretKeyInMultisig when the
   input carries no MultisigSignature, and when it carries one in which no
   slot has the caller's key; no LogicSignature is returned then. *)
C12_AppendNeedsOwnSlot ==
    (/\ AppendToLogicMsigReturned
     /\ \/ args.lsig.msig = None
        \/ SlotsOf([i \in 1..Len(args.lsig.msig[1].subsigs) |->
                       args.lsig.msig[1].subsigs[i].key],
                   PublicKeyOf(args.self.seed)) = {})
        => result = Err("InvalidSecretKeyInMultisig")

\* the input carries a multisig with a signed slot, none of the caller's key
C12_Witness ==
    /\ AppendToLogicMsigReturned
    /\ args.lsig.msig # None
    /\ Len(args.lsig.msig[1].subsigs) >= 1
    /\ \A i \in 1..Len(args.lsig.msig[1].subsigs) :
           /\ args.lsig.msig[1].subsigs[i].key # PublicKeyOf(args.self.seed)
           /\ args.lsig.msig[1].subsigs[i].sig # None

(* C13: append_multisig_transaction(account, policy, existing) returns what
   merge_multisig_transactions returns for sign_multisig_transaction(account,
   policy, existing.transaction) and existing, in that order, or the error
   of the signing; when it succeeds, the slots populated in existing hold the
   same signatures in the result and the caller's slots are populated. *)
C13_AppendIsSignThenMerge ==
    AppendMultisigReturned
        => LET fresh == sign_multisig_transaction(args.self, args.from,
                                                  args.transaction.transaction)
           IN  /\ result = IF fresh.tag = "Ok"
                           THEN merge_multisig_transactions(
                                    <<fresh.value, args.transaction>>)
                           ELSE fresh
               /\ result.tag = "Ok" =>
                      /\ \A i \in Populated(args.transaction) :
                             Subsigs(result.value)[i].sig = Subsigs(args.transaction)[i].sig
                      /\ SlotsOf(args.from.public_keys, PublicKeyOf(args.self.seed))
                             \subseteq Populated(result.value)
                      /\ SlotsOf(args.from.public_keys, PublicKeyOf(args.self.seed)) # {}

\* the append succeeded on an existing transaction that another member had
\* signed, under another threshold than the policy's
C13_Witness ==
    /\ AppendMultisigReturned
    /\ result.tag = "Ok"
    /\ \E i \in Populated(args.transaction) :
           Subsigs(args.transaction)[i].key # PublicKeyOf(args.self.seed)
    /\ args.transaction.multisig[1].threshold # args.from.threshold

(* C15: every LogicSignature returned by sign_logic_msig or
   append_to_logic_msig has exactly one signature form: the
   MultisigSignature is present and the single signature is absent, also
   for an input that carried a single signature. *)
C15_ExactlyOneLogicSigForm ==
    (/\ op \in {"sign_logic_msig", "append_to_logic_msig"}
     /\ result # Pending
     /\ result.tag = "Ok")
        => /\ result.value.msig # None
           /\ result.value.sig = None

----------------------------------------------------------------------------
(* Members of one policy sign one transaction each on their own, and the
   partial transactions are merged *)

\* the accounts of a group
Members == {from_seed(s) : s \in 1..MaxMembers}

\* the policies of a group: any list of up to MaxMembers of its keys
GroupPolicies ==
    [version : Versions, threshold : Thresholds,
     public_keys : SeqsUpTo({Ed25519PublicKey(a.address) : a \in Members}, MaxMembers)
                       \ {<<>>}]

\* the transactions a group signs: sent by the policy's address, or by another
GroupTransactions(from) ==
    [sender : {MultisigAddress_address(from), from_seed(1).address}, payload : Payloads]

\* the signers in the order their partial transactions are handed to the merge
SignerLists ==
    {as \in SeqsUpTo(Members, MaxMembers) : \A i, j \in 1..Len(as) : as[i] = as[j] => i = j}

\* sign_multisig_transaction for every signer, then the merge of what they
\* returned; the first signing that fails ends the collection with its error
collect_and_merge(signers, from, transaction) ==
    LET partial == [i \in 1..Len(signers) |->
                       sign_multisig_transaction(signers[i], from, transaction)]
        failed == {i \in 1..Len(signers) : partial[i].tag # "Ok"}
    IN  IF failed # {}
        THEN partial[CHOOSE i \in failed : \A j \in failed : i <= j]
        ELSE merge_multisig_transactions([i \in 1..Len(signers) |-> partial[i].value])

InitCollect ==
    /\ op = "collect_and_merge"
    /\ \E from \in GroupPolicies, signers \in SignerLists :
           \E transaction \in GroupTransactions(from) :
               args = [signers |-> signers, from |-> from, transaction |-> transaction]
    /\ result = Pending
    /\ signed = <<>>

CollectAndMerge ==
    /\ op = "collect_and_merge"
    /\ result = Pending
    /\ result' = collect_and_merge(args.signers, args.from, args.transaction)
    /\ signed' = [i \in 1..Len(args.signers) |->
                     sign_multisig_transaction_run(
                         args.signers[i], args.from, args.transaction).signed]
    /\ UNCHANGED <<op, args>>

NextCollect == CollectAndMerge

SpecCollect == InitCollect /\ [][NextCollect]_vars

CollectReturned == op = "collect_and_merge" /\ result # Pending

\* the positions of the signers in the policy
SignerSlots ==
    {i \in 1..Len(args.from.public_keys) :
        \E k \in 1..Len(args.signers) :
            args.from.public_keys[i] = Ed25519PublicKey(args.signers[k].address)}

\* N different members, the sender is the policy's address, and k >= 2 of
\* the members sign
GroupOfSigners ==
    /\ \A i, j \in 1..Len(args.from.public_keys) :
           args.from.public_keys[i] = args.from.public_keys[j] => i = j
    /\ MultisigAddress_address(args.from) = args.transaction.sender
    /\ Len(args.signers) >= 2
    /\ \A k \in 1..Len(args.signers) :
           contains(args.from.public_keys, Ed25519PublicKey(args.signers[k].address))

(* C16: for a policy of N different members and a transaction sent by the
   policy's address, the merge of the partial transactions of k different
   members, 2 <= k <= N, has exactly k non-empty and N-k empty subsigs, the
   non-empty ones at the signers' positions and holding the signers'
   signatures, with the subsig keys in the policy's member order. *)
C16_MergeOfPartials ==
    (CollectReturned /\ GroupOfSigners)
        => /\ result.tag = "Ok"
           /\ HasMultisig(result.value)
           /\ SlotKeys(result.value) = args.from.public_keys
           /\ Populated(result.value) = SignerSlots
           /\ Cardinality(Populated(result.value)) = Len(args.signers)
           /\ Cardinality((1..Len(args.from.public_keys)) \ Populated(result.value))
                  = Len(args.from.public_keys) - Len(args.signers)
           /\ \A i \in Populated(result.value) :
                  Subsigs(result.value)[i].sig =
                      Some([signer |-> args.from.public_keys[i],
                            msg |-> bytes_to_sign(args.transaction)])

\* two of three members signed, the later member of the policy first
C16_Witness ==
    /\ CollectReturned
    /\ GroupOfSigners
    /\ Len(args.from.public_keys) = 3
    /\ Len(args.signers) = 2
    /\ Ed25519PublicKey(args.signers[1].address) = args.from.public_keys[3]
    /\ Ed25519PublicKey(args.signers[2].address) = args.from.public_keys[1]
    /\ args.from.threshold = 2

----------------------------------------------------------------------------
(* A multisig flow: the members of one policy sign one transaction, or one
   program, step by step.  args holds what the flow has collected: the
   policy, the transaction and the SignedTransaction built so far (stx), the
   LogicSignature built so far (lsig), and the inputs of the last step.  A
   step that returns Ok replaces stx or lsig by what it returned; a step
   that fails leaves them alone. *)

\* the policies of a flow: up to MaxMembers different members
FlowPolicies ==
    {from \in GroupPolicies :
        \A i, j \in 1..Len(from.public_keys) :
            from.public_keys[i] = from.public_keys[j] => i = j}

\* what a step that returned `res` leaves in the flow
Kept(held, res) == IF res.tag = "Ok" THEN Some(res.value) ELSE held

\* the partial transactions the members of the policy produce on their own
FreshPartials ==
    {sign_multisig_transaction(a, args.from, args.transaction).value :
        a \in {b \in Members : contains(args.from.public_keys, Ed25519PublicKey(b.address))}}

\* the lists handed to the merge: the flow's transaction and partial
\* transactions of members, in any order
FlowMergeLists ==
    {ts \in UNION {[1..n -> {args.stx[1]} \cup FreshPartials] : n \in 2..MaxInputs} :
        /\ \E i \in 1..Len(ts) : ts[i] = args.stx[1]
        /\ \A i, j \in 1..Len(ts) : ts[i] = ts[j] => i = j}

InitFlow ==
    /\ op = "none"
    /\ \E from \in FlowPolicies, logic \in Programs :
           args = [from |-> from,
                   transaction |-> [sender |-> MultisigAddress_address(from), payload |-> 1],
                   stx |-> None,
                   lsig |-> [logic |-> logic, args |-> <<>>, sig |-> None, msig |-> None],
                   inputs |-> <<>>]
    /\ result = Pending
    /\ signed = <<>>

\* the transaction flow has not begun
NoTransactionYet == args.stx = None
\* the program flow has not begun
NoLogicMsigYet == args.lsig.msig = None

FlowSignTransaction ==
    /\ NoTransactionYet /\ NoLogicMsigYet
    /\ \E self \in Members :
           LET run == sign_transaction_run(self, args.transaction)
           IN  /\ op' = "sign_transaction"
               /\ result' = run.result
               /\ signed' = run.signed
               /\ args' = [args EXCEPT !.stx = Kept(args.stx, run.result),
                                       !.inputs = <<>>]

FlowSignMultisigTransaction ==
    /\ NoTransactionYet /\ NoLogicMsigYet
    /\ \E self \in Members :
           LET run == sign_multisig_transaction_run(self, args.from, args.transaction)
           IN  /\ op' = "sign_multisig_transaction"
               /\ result' = run.result
               /\ signed' = run.signed
               /\ args' = [args EXCEPT !.stx = Kept(args.stx, run.result),
                                       !.inputs = <<>>]

FlowAppendMultisigTransaction ==
    /\ ~NoTransactionYet
    /\ \E self \in Members :
           LET run == append_multisig_transaction_run(self, args.from, args.stx[1])
           IN  /\ op' = "append_multisig_transaction"
               /\ result' = run.result
               /\ signed' = run.signed
               /\ args' = [args EXCEPT !.stx = Kept(args.stx, run.result),
                                       !.inputs = <<args.stx[1]>>]

FlowMergeMultisigTransactions ==
    /\ ~NoTransactionYet
    /\ \E transactions \in FlowMergeLists :
           LET res == merge_multisig_transactions(transactions)
           IN  /\ op' = "merge_multisig_transactions"
               /\ result' = res
               /\ signed' = <<>>
               /\ args' = [args EXCEPT !.stx = Kept(args.stx, res),
                                       !.inputs = transactions]

FlowSignLogicMsig ==
    /\ NoTransactionYet /\ NoLogicMsigYet
    /\ \E self \in Members :
           LET run == sign_logic_msig_run(self, args.lsig, args.from)
           IN  /\ op' = "sign_logic_msig"
               /\ result' = run.result
               /\ signed' = run.signed
               /\ args' = [args EXCEPT !.lsig = Kept(Some(args.lsig), run.result)[1],
                                       !.inputs = <<args.lsig>>]

FlowAppendToLogicMsig ==
    /\ NoTransactionYet
    /\ \E self \in Members :
           LET run == append_to_logic_msig_run(self, args.lsig)
           IN  /\ op' = "append_to_logic_msig"
               /\ result' = run.result
               /\ signed' = run.signed
               /\ args' = [args EXCEPT !.lsig = Kept(Some(args.lsig), run.result)[1],
                                       !.inputs = <<args.lsig>>]

NextFlow ==
    \/ FlowSignTransaction
    \/ FlowSignMultisigTransaction
    \/ FlowAppendMultisigTransaction
    \/ FlowMergeMultisigTransactions
    \/ FlowSignLogicMsig
    \/ FlowAppendToLogicMsig

SpecFlow == InitFlow /\ [][NextFlow]_vars

----------------------------------------------------------------------------
\* the last step of the flow returned a SignedTransaction
FlowReturnedTransaction ==
    /\ op \in {"sign_transaction", "sign_multisig_transaction",
               "append_multisig_transaction", "merge_multisig_transactions"}
    /\ result.tag = "Ok"

OnlySig(t) == t.sig # None /\ t.logicsig = None /\ t.multisig = None
OnlyMultisig(t) == t.sig = None /\ t.logicsig = None /\ t.multisig # None

(* C14: every SignedTransaction returned by sign_transaction,
   sign_multisig_transaction, append_multisig_transaction or
   merge_multisig_transactions, the latter two applied to what these
   operations produced, has exactly one of sig, logicsig and multisig
   populated: sign_transaction only sig, the multisig operations only
   multisig.  The transaction the flow holds is such a value too. *)
C14_ExactlyOneAuthorization ==
    /\ FlowReturnedTransaction =>
          IF op = "sign_transaction"
          THEN OnlySig(result.value)
          ELSE OnlyMultisig(result.value)
    /\ args.stx # None => OnlySig(args.stx[1]) \/ OnlyMultisig(args.stx[1])

\* a merge of three transactions of the flow returned, one of them itself
\* the result of an earlier append or merge
C14_Witness ==
    /\ op = "merge_multisig_transactions"
    /\ result.tag = "Ok"
    /\ Len(args.inputs) = 3
    /\ \E i \in 1..3 : Cardinality(Populated(args.inputs[i])) >= 2
    /\ OnlyMultisig(result.value)

----------------------------------------------------------------------------
\* the populated slots of a LogicSignature's multisig, none without one
LogicPopulated(lsig) ==
    IF lsig.msig = None
    THEN {}
    ELSE {i \in 1..Len(lsig.msig[1].subsigs) : lsig.msig[1].subsigs[i].sig # None}

\* the populated slots of the transaction the flow holds
HeldPopulated(held) ==
    IF held # None /\ HasMultisig(held[1]) THEN Populated(held[1]) ELSE {}

\* the count has reached the policy's threshold
Complete(slots) == Cardinality(slots) >= args.from.threshold

\* one step of the flow: it has returned, what it returned holds the
\* populated slots of each of its inputs, and what the flow holds has not
\* lost a slot nor fallen back below the threshold
FlowStepForward ==
    /\ result' # Pending
    /\ (/\ op' \in {"append_multisig_transaction", "merge_multisig_transactions"}
        /\ result'.tag = "Ok")
       => \A k \in 1..Len(args'.inputs) :
              /\ HasMultisig(args'.inputs[k])
              /\ Populated(args'.inputs[k]) \subseteq Populated(result'.value)
    /\ (op' = "append_to_logic_msig" /\ result'.tag = "Ok")
       => LogicPopulated(args'.inputs[1]) \subseteq LogicPopulated(result'.value)
    /\ HeldPopulated(args.stx) \subseteq HeldPopulated(args'.stx)
    /\ LogicPopulated(args.lsig) \subseteq LogicPopulated(args'.lsig)
    /\ Cardinality(HeldPopulated(args.stx)) <= Cardinality(HeldPopulated(args'.stx))
    /\ Cardinality(LogicPopulated(args.lsig)) <= Cardinality(LogicPopulated(args'.lsig))
    /\ Complete(HeldPopulated(args.stx)) => Complete(HeldPopulated(args'.stx))
    /\ Complete(LogicPopulated(args.lsig)) => Complete(LogicPopulated(args'.lsig))

(* C17: a multisig flow only moves forward.  Along every sequence of steps
   over one policy, each successful append_multisig_transaction,
   append_to_logic_msig and merge_multisig_transactions returns a value whose
   populated slots contain the populated slots of every input of the step;
   the number of populated slots the flow holds never decreases, a flow that
   has reached the threshold never falls back below it, and every step
   returns at once, whatever the number of signatures. *)
C17_FlowMovesForward == [][FlowStepForward]_vars

\* a merge took a transaction below the threshold of 2 and returned one
\* that has reached it
C17_Witness ==
    /\ op = "merge_multisig_transactions"
    /\ result.tag = "Ok"
    /\ args.from.threshold = 2
    /\ \E k \in 1..Len(args.inputs) : Cardinality(Populated(args.inputs[k])) = 1
    /\ Cardinality(Populated(result.value)) >= 2
    /\ args.stx = Some(result.value)

----------------------------------------------------------------------------
\* the keys of the slots of a MultisigSignature, in order
KeysOf(msig) == [i \in 1..Len(msig.subsigs) |-> msig.subsigs[i].key]

\* the MultisigSignature has the policy's keys, in the policy's order
MirrorsPolicy(msig) == KeysOf(msig) = args.from.public_keys

(* C18: in every MultisigSignature returned by sign_logic_msig,
   sign_multisig_transaction, append_to_logic_msig,
   append_multisig_transaction or merge_multisig_transactions, and in what a
   flow over one policy holds after any sequence of these operations, the
   keys of the subsigs are the policy's public_keys, same order and same
   length: no slot is reordered, dropped or added. *)
C18_SubsigsMirrorPolicy ==
    /\ (/\ op \in {"sign_multisig_transaction", "append_multisig_transaction",
                   "merge_multisig_transactions"}
        /\ result.tag = "Ok")
       => /\ HasMultisig(result.value)
          /\ MirrorsPolicy(result.value.multisig[1])
    /\ (/\ op \in {"sign_logic_msig", "append_to_logic_msig"}
        /\ result.tag = "Ok")
       => /\ result.value.msig # None
          /\ MirrorsPolicy(result.value.msig[1])
    /\ (args.stx # None /\ HasMultisig(args.stx[1]))
       => MirrorsPolicy(args.stx[1].multisig[1])
    /\ args.lsig.msig # None => MirrorsPolicy(args.lsig.msig[1])

\* the last member of a policy of three has appended to a LogicSignature the
\* two others had signed
C18_Witness ==
    /\ op = "append_to_logic_msig"
    /\ result.tag = "Ok"
    /\ Len(args.from.public_keys) = 3
    /\ Cardinality(LogicPopulated(args.inputs[1])) = 2
    /\ Cardinality(LogicPopulated(result.value)) = 3
    /\ MirrorsPolicy(result.value.msig[1])

----------------------------------------------------------------------------
(* Collecting the inputs of a merge in any order and in any grouping *)

\* the ways to split the positions S into k >= 2 groups, the groups in order
Groupings(S) ==
    UNION {{[j \in 1..k |-> {i \in S : f[i] = j}] :
               f \in {g \in [S -> 1..k] : \A j \in 1..k : \E i \in S : g[i] = j}} :
           k \in 2..Cardinality(S)}

\* the first failure among the results of the groups, none if all succeeded
FirstFailure(results) ==
    LET failed == {j \in 1..Len(results) : results[j].tag # "Ok"}
    IN  IF failed = {}
        THEN None
        ELSE Some(results[CHOOSE j \in failed : \A l \in failed : j <= l])

\* every result the inputs at the positions S can be merged to: one input is
\* itself, more are split into groups, each group is merged on its own by one
\* of its ways, and the results of the groups are merged in the groups'
\* order; a group that failed leaves nothing to merge
RECURSIVE Outcomes(_, _)
Outcomes(transactions, S) ==
    IF Cardinality(S) = 1
    THEN {Ok(transactions[CHOOSE i \in S : TRUE])}
    ELSE UNION {
           LET each == [j \in 1..Len(groups) |-> Outcomes(transactions, groups[j])]
               chosen == {c \in [1..Len(groups) -> UNION {each[j] : j \in 1..Len(groups)}] :
                             \A j \in 1..Len(groups) : c[j] \in each[j]}
           IN  {IF FirstFailure(c) = None
                THEN merge_multisig_transactions([j \in 1..Len(groups) |-> c[j].value])
                ELSE FirstFailure(c)[1] : c \in chosen} :
           groups \in Groupings(S)}

\* partially signed transactions over one transaction and one policy
PartialsOfOnePolicy(transactions) ==
    /\ \A i \in 1..Len(transactions) :
           /\ HasMultisig(transactions[i])
           /\ transactions[i].sig = None
           /\ transactions[i].logicsig = None
    /\ \A i, j \in 1..Len(transactions) :
           /\ transactions[i].transaction = transactions[j].transaction
           /\ transactions[i].transaction_id = transactions[j].transaction_id
           /\ transactions[i].multisig[1].version = transactions[j].multisig[1].version
           /\ transactions[i].multisig[1].threshold = transactions[j].multisig[1].threshold
           /\ SlotKeys(transactions[i]) = SlotKeys(transactions[j])

\* no two of them hold different signatures for one slot
MutuallyCompatible(transactions) ==
    \A i, j \in 1..Len(transactions) : Compatible(transactions[i], transactions[j])

(* C19: merging converges however the partial signatures are collected.  For
   3 or more partially signed transactions over the same transaction and
   policy: if they are mutually compatible, every permutation of the inputs
   and every grouping into nested merges succeeds, all with the one result
   the merge of the list returned; if two of them conflict, every
   permutation and every grouping fails. *)
C19_MergeConverges ==
    (/\ MergeReturned
     /\ Len(args.transactions) >= 3
     /\ PartialsOfOnePolicy(args.transactions))
    => LET outcomes == Outcomes(args.transactions, 1..Len(args.transactions))
       IN  /\ result \in outcomes
           /\ IF MutuallyCompatible(args.transactions)
              THEN result.tag = "Ok" /\ outcomes = {result}
              ELSE \A o \in outcomes : o.tag # "Ok"

\* three different compatible partials, none of which holds all the
\* signatures of the result
C19_Witness ==
    /\ MergeReturned
    /\ Len(args.transactions) = 3
    /\ PartialsOfOnePolicy(args.transactions)
    /\ MutuallyCompatible(args.transactions)
    /\ \A i, j \in 1..3 : args.transactions[i] = args.transactions[j] => i = j
    /\ result.tag = "Ok"
    /\ Cardinality(Populated(result.value)) = 2
    /\ args.transactions[1] # result.value
    /\ Cardinality(Outcomes(args.transactions, 1..3)) = 1

\* three partials of one policy with a conflicting pair among them, the
\* merge failed
C19_WitnessConflict ==
    /\ MergeReturned
    /\ Len(args.transactions) = 3
    /\ PartialsOfOnePolicy(args.transactions)
    /\ ~MutuallyCompatible(args.transactions)
    /\ result.tag = "Err"

====
